---------------------------- MODULE Spec2Model ----------------------------
(* A model of the uthread library (uthread.c): a cooperative, priority     *)
(* driven user-level thread scheduler.  The ready queue is the circular,  *)
(* doubly-linked list of uthread.c, kept as the next/prev fields of the    *)
(* nodes; the three library calls are the actions.                        *)
EXTENDS Integers, Sequences, FiniteSets, TLC

\* ------------------------------------------------------------------ bounds
\* Number of uthread_t nodes the program allocates in one run.
MaxCreate == 3
\* Priorities are ints without a range; the model draws them from -1..MaxPrio.
MaxPrio == 0

\* -------------------------------------------------------------- addresses
\* The null pointer.
NULL == -1
\* A non-null address that no malloc of the library returned: what an
\* uninitialised pointer field of the malloc'ed queue_t may hold.
WILD == 0

\* Addresses of the nodes malloc'ed by uthread_create.
Created == 1..MaxCreate
\* Everything a uthread_t* can point to.
Nodes == {WILD} \cup Created
Prios == (0 - 1)..MaxPrio
\* Values an uninitialised pointer can hold.
Uninit == {NULL, WILD}

VARIABLES
    head,       \* thread_queue->head
    size,       \* thread_queue->size
    active,     \* thread_queue->active
    priority,   \* node->priority, for the nodes whose field has been written
    next,       \* node->next
    prev,       \* node->prev
    lock,       \* value of the semaphore
    heap,       \* the live allocations: <<kind, address>>
    ncreated,   \* number of uthread_t nodes malloc'ed so far
    status,     \* "running", "exited" (exit(0)) or "crashed"
    last,       \* ghost: the most recent library call and its outcome
    fifo        \* ghost: the ready nodes in the order they were enqueued

vars == <<head, size, active, priority, next, prev, lock, heap, ncreated,
          status, last, fifo>>

\* The function f with f[k] set to v (k is added to the domain if new).
Set(f, k, v) == [x \in (DOMAIN f) \cup {k} |-> IF x = k THEN v ELSE f[x]]

\* The queue_t and the link fields as one value, for the queue operations.
Queue == [head |-> head, size |-> size, next |-> next, prev |-> prev]

SeqToSet(s) == {s[i] : i \in 1..Len(s)}
Remove(s, x) == SelectSeq(s, LAMBDA y : y # x)
IndexOf(s, x) == CHOOSE i \in 1..Len(s) : s[i] = x

\* ------------------------------------------------------------------- add
\* add without the final (*queue)->size++.
add_nosize(q, item) ==
    IF q.size = 0 THEN
        [q EXCEPT !.head = item,
                  !.next = Set(q.next, item, item),
                  !.prev = Set(q.prev, item, item)]
    ELSE
        LET p1 == Set(q.prev, q.next[q.head], item)
            n1 == Set(q.next, item, q.next[q.head])
            p2 == Set(p1, item, q.head)
            n2 == Set(n1, q.head, item)
        IN  [q EXCEPT !.next = n2, !.prev = p2]

\* add without the write head->next->prev = item of its last branch.
add_nobacklink(q, item) ==
    IF q.size = 0 THEN
        [q EXCEPT !.head = item,
                  !.next = Set(q.next, item, item),
                  !.prev = Set(q.prev, item, item),
                  !.size = q.size + 1]
    ELSE IF q.size = 1 THEN
        LET n1 == Set(q.next, item, q.head)
            p1 == Set(q.prev, item, q.head)
            n2 == Set(n1, q.head, item)
            p2 == Set(p1, q.head, item)
        IN  [q EXCEPT !.next = n2, !.prev = p2, !.size = q.size + 1]
    ELSE
        LET n1 == Set(q.next, item, q.next[q.head])
            p2 == Set(q.prev, item, q.head)
            n2 == Set(n1, q.head, item)
        IN  [q EXCEPT !.next = n2, !.prev = p2, !.size = q.size + 1]

\* add that links item on the other side of head (before it, not after).
add_before(q, item) ==
    IF q.size = 0 THEN
        [q EXCEPT !.head = item,
                  !.next = Set(q.next, item, item),
                  !.prev = Set(q.prev, item, item),
                  !.size = q.size + 1]
    ELSE
        LET n1 == Set(q.next, q.prev[q.head], item)
            p1 == Set(q.prev, item, q.prev[q.head])
            n2 == Set(n1, item, q.head)
            p2 == Set(p1, q.head, item)
        IN  [q EXCEPT !.next = n2, !.prev = p2, !.size = q.size + 1]

\* add(queue, item): links item right after head.
add(q, item) ==
    IF q.size = 0 THEN
        [q EXCEPT !.head = item,
                  !.next = Set(q.next, item, item),
                  !.prev = Set(q.prev, item, item),
                  !.size = q.size + 1]
    ELSE IF q.size = 1 THEN
        LET n1 == Set(q.next, item, q.head)
            p1 == Set(q.prev, item, q.head)
            n2 == Set(n1, q.head, item)
            p2 == Set(p1, q.head, item)
        IN  [q EXCEPT !.next = n2, !.prev = p2, !.size = q.size + 1]
    ELSE
        LET p1 == Set(q.prev, q.next[q.head], item)
            n1 == Set(q.next, item, q.next[q.head])
            p2 == Set(p1, item, q.head)
            n2 == Set(n1, q.head, item)
        IN  [q EXCEPT !.next = n2, !.prev = p2, !.size = q.size + 1]

\* ------------------------------------------------- get_priority_thread
\* The scan of get_priority_thread: from curr, follow prev until head is
\* next, keeping the first node whose priority is strictly smaller.
\* scan with the comparison reversed: keeps the largest priority.
RECURSIVE scan_reversed(_, _, _, _, _)
scan_reversed(q, pri, curr, priority_node, highest_priority) ==
    IF q.prev[curr] = q.head THEN priority_node
    ELSE LET c == q.prev[curr] IN
         IF pri[c] > highest_priority
         THEN scan_reversed(q, pri, c, c, pri[c])
         ELSE scan_reversed(q, pri, c, priority_node, highest_priority)

\* scan with a non-strict comparison: a later node of equal priority wins.
RECURSIVE scan_nonstrict(_, _, _, _, _)
scan_nonstrict(q, pri, curr, priority_node, highest_priority) ==
    IF q.prev[curr] = q.head THEN priority_node
    ELSE LET c == q.prev[curr] IN
         IF pri[c] <= highest_priority
         THEN scan_nonstrict(q, pri, c, c, pri[c])
         ELSE scan_nonstrict(q, pri, c, priority_node, highest_priority)

RECURSIVE scan(_, _, _, _, _)
scan(q, pri, curr, priority_node, highest_priority) ==
    IF q.prev[curr] = q.head THEN priority_node
    ELSE LET c == q.prev[curr] IN
         IF pri[c] < highest_priority
         THEN scan(q, pri, c, c, pri[c])
         ELSE scan(q, pri, c, priority_node, highest_priority)

\* get_priority_thread(queue): the node returned and the queue afterwards.
get_priority_thread(q, pri) ==
    IF q.size = 0 THEN [thread |-> NULL, q |-> q]
    ELSE IF q.size = 1 THEN
        [thread |-> q.head, q |-> [q EXCEPT !.head = NULL, !.size = 0]]
    ELSE
        LET pn == scan(q, pri, q.head, q.head, pri[q.head])
            h1 == IF pn = q.head THEN q.prev[pn] ELSE q.head
            n1 == Set(q.next, q.prev[pn], q.next[pn])
            p1 == Set(q.prev, n1[pn], q.prev[pn])
        IN  [thread |-> pn,
             q |-> [q EXCEPT !.head = h1, !.next = n1, !.prev = p1,
                             !.size = q.size - 1]]

\* ---------------------------------------------------------- cleanup_queue
\* The loop of cleanup_queue: from curr, free the node and follow next until
\* a null pointer.  ub is set when the loop reads a node that is not memory
\* of the library or that it has already freed.
RECURSIVE cleanup_walk(_, _, _)
cleanup_walk(nxt, curr, freed) ==
    IF curr = NULL THEN [freed |-> freed, ub |-> FALSE]
    ELSE IF curr \notin DOMAIN nxt \/ curr \in freed
         THEN [freed |-> freed, ub |-> TRUE]
         ELSE cleanup_walk(nxt, nxt[curr], freed \cup {curr})

\* free(p) of a uthread_t*: the allocation it releases.
free_node(p) == IF p \in Created THEN {<<"node", p>>} ELSE {}

\* The field map f once the node p is freed: a freed node has no fields.
Freed(f, p) == IF p \in Created THEN [x \in (DOMAIN f) \ {p} |-> f[x]] ELSE f

\* cleanup_queue(queue): the allocations it releases.
cleanup_queue(q, act) ==
    LET w == cleanup_walk(q.next, q.head, {})
    IN  UNION {free_node(n) : n \in w.freed} \cup free_node(act)
            \cup {<<"queue", NULL>>}

\* Whether cleanup_queue has undefined behaviour: its loop leaves the
\* library's memory, or free() is given an address malloc never returned.
cleanup_undefined(q, act) ==
    cleanup_walk(q.next, q.head, {}).ub \/ act = WILD

\* ------------------------------------------------- the statements of a call
\* The statements a library call executes, in order, on the path recorded in
\* l (its operation and outcome): the semaphore operations, the uses of the
\* scheduler's state, and the way it ends.  A path that faults ends with the
\* statement that faults.  "init_node" is the write of the fields of a node
\* just malloc'ed, which no other code can reach yet.
\* Steps in which the early return of uthread_yield forgets sem_post.
Steps_nopost(l) ==
    IF l.op = "uthread_create" THEN
        IF l.ret = <<0>>
        THEN <<"init_node", "sem_wait", "add", "sem_post", "return">>
        ELSE IF l.outcome = "context" THEN <<"init_node", "return">>
        ELSE <<"return">>
    ELSE IF l.op = "uthread_yield" THEN
        IF l.outcome = "empty" THEN <<"sem_wait", "size", "return">>
        ELSE IF l.outcome = "segv" THEN <<"sem_wait", "size", "priority">>
        ELSE <<"sem_wait", "size", "priority", "get_priority_thread",
               "active", "add", "active", "sem_post", "swapcontext">>
    ELSE IF l.op = "uthread_exit" THEN
        IF l.outcome = "exit0" THEN
            <<"sem_wait", "size", "sem_post", "cleanup_queue", "sem_destroy",
              "exit">>
        ELSE IF l.thread = NULL THEN
            <<"sem_wait", "size", "sem_post", "cleanup_queue">>
        ELSE IF l.outcome = "abort" THEN
            <<"sem_wait", "size", "get_priority_thread", "free_active">>
        ELSE <<"sem_wait", "size", "get_priority_thread", "free_active",
               "active", "sem_post", "setcontext">>
    ELSE <<>>

Steps(l) ==
    IF l.op = "uthread_create" THEN
        IF l.ret = <<0>>
        THEN <<"init_node", "sem_wait", "add", "sem_post", "return">>
        ELSE IF l.outcome = "context" THEN <<"init_node", "return">>
        ELSE <<"return">>
    ELSE IF l.op = "uthread_yield" THEN
        IF l.outcome = "empty" THEN <<"sem_wait", "size", "sem_post", "return">>
        ELSE IF l.outcome = "segv" THEN <<"sem_wait", "size", "priority">>
        ELSE <<"sem_wait", "size", "priority", "get_priority_thread",
               "active", "add", "active", "sem_post", "swapcontext">>
    ELSE IF l.op = "uthread_exit" THEN
        IF l.outcome = "exit0" THEN
            <<"sem_wait", "size", "sem_post", "cleanup_queue", "sem_destroy",
              "exit">>
        ELSE IF l.thread = NULL THEN
            <<"sem_wait", "size", "sem_post", "cleanup_queue">>
        ELSE IF l.outcome = "abort" THEN
            <<"sem_wait", "size", "get_priority_thread", "free_active">>
        ELSE <<"sem_wait", "size", "get_priority_thread", "free_active",
               "active", "sem_post", "setcontext">>
    ELSE <<>>

\* The value of the semaphore after the statements st, from the value l0.
RECURSIVE LockAfter(_, _)
LockAfter(st, l0) ==
    IF st = <<>> THEN l0
    ELSE LockAfter(Tail(st), CASE Head(st) = "sem_wait" -> l0 - 1
                               [] Head(st) = "sem_post" -> l0 + 1
                               [] OTHER -> l0)

\* The value of the semaphore when statement i of st starts.
LockBefore(st, i, l0) == LockAfter(SubSeq(st, 1, i - 1), l0)

\* No sem_wait of st finds the semaphore at 0 (it would block for ever: no
\* other thread of execution can post).
Runs(st, l0) ==
    \A i \in 1..Len(st) : st[i] = "sem_wait" => LockBefore(st, i, l0) > 0

\* The call recorded in last' takes and releases the semaphore as its
\* statements say.
Guard ==
    /\ Runs(Steps(last'), lock)
    /\ lock' = LockAfter(Steps(last'), lock)

\* ------------------------------------------------------------ system_init
\* The state after system_init(): size is 0 and the semaphore is 1; head
\* and active are fields of the malloc'ed queue_t that are not written.
Init ==
    /\ head \in Uninit
    /\ active \in Uninit
    /\ size = 0
    /\ priority = <<>>
    /\ next = <<>>
    /\ prev = <<>>
    /\ lock = 1
    /\ heap = {<<"queue", NULL>>, <<"sem", NULL>>}
    /\ ncreated = 0
    /\ status = "running"
    /\ last = [op |-> "system_init", arg |-> 0, ret |-> <<>>, caller |-> NULL,
               thread |-> NULL, outcome |-> "ok"]
    /\ fifo = <<>>

\* A context whose stack was never allocated cannot be run.
NoStack(t) == t \in Created /\ <<"stack", t>> \notin heap

\* -------------------------------------------------------- uthread_create
\* Which malloc of uthread_create returns NULL, if any.
AllocFail == {"none", "node", "context", "stack"}

\* The allocations uthread_create holds when its malloc `fail` fails.
Allocated(n, fail) ==
    CASE fail = "node"    -> {}
      [] fail = "context" -> {<<"node", n>>}
      [] fail = "stack"   -> {<<"node", n>>, <<"context", n>>}
      [] fail = "none"    -> {<<"node", n>>, <<"context", n>>, <<"stack", n>>}

\* The value uthread_create returns when its malloc `fail` fails.
CreateReturn(fail) == IF fail \in {"node", "context"} THEN -1 ELSE 0

uthread_create(p, fail) ==
    /\ status = "running"
    /\ ncreated < MaxCreate
    /\ \E n \in {ncreated + 1} :
       \E q \in {IF CreateReturn(fail) = 0 THEN add(Queue, n) ELSE Queue} :
           /\ heap' = heap \cup Allocated(n, fail)
           /\ ncreated' = IF fail = "node" THEN ncreated ELSE n
           /\ priority' = IF fail = "node" THEN priority ELSE Set(priority, n, p)
           /\ head' = q.head
           /\ size' = q.size
           /\ next' = q.next
           /\ prev' = q.prev
           /\ fifo' = IF CreateReturn(fail) = 0 THEN Append(fifo, n) ELSE fifo
           /\ last' = [op |-> "uthread_create", arg |-> p,
                       ret |-> <<CreateReturn(fail)>>, caller |-> active,
                       thread |-> NULL, outcome |-> fail]
    /\ Guard
    /\ UNCHANGED <<active, status>>

\* --------------------------------------------------------- uthread_yield
\* What the dereferences of thread_queue->active in uthread_yield can do:
\* a null pointer faults at the first write; a wild pointer faults there,
\* or at the write of the saved context, or is writable memory.
YieldOutcomes ==
    IF active = NULL THEN {"segv"}
    ELSE IF active = WILD /\ WILD \notin DOMAIN priority
         THEN {"segv", "segv_swap", "ok"}
         ELSE {"ok"}

\* uthread_yield that keeps the priority a thread already has.
yield_priority_keep(pri, act, p) ==
    IF act \in DOMAIN pri THEN pri ELSE Set(pri, act, p)

\* The write active->priority = priority of uthread_yield.
yield_priority(pri, act, p) == Set(pri, act, p)

\* The test of uthread_yield for nothing to yield to, off by one.
yield_empty_offbyone(q) == q.size < 0

\* The test of uthread_yield for nothing to yield to.
yield_empty(q) == q.size = 0

\* The selection of uthread_yield made after the caller is put back.
yield_select_addfirst(q, pri, save) ==
    LET r == get_priority_thread(add(q, save), pri)
    IN  [thread |-> r.thread, q |-> r.q]

\* The selection and the reinsertion of uthread_yield: the next thread is
\* taken from the queue, then the caller is added.
yield_select(q, pri, save) ==
    LET r == get_priority_thread(q, pri)
    IN  [thread |-> r.thread, q |-> add(r.q, save)]

uthread_yield(p, o) ==
    /\ status = "running"
    /\ IF yield_empty(Queue) THEN
          /\ o = "ok"
          /\ last' = [op |-> "uthread_yield", arg |-> p, ret |-> <<-1>>,
                      caller |-> active, thread |-> NULL, outcome |-> "empty"]
          /\ Guard
          /\ UNCHANGED <<head, size, active, priority, next, prev, heap,
                         ncreated, status, fifo>>
       ELSE IF o = "segv" THEN
          /\ o \in YieldOutcomes
          /\ status' = "crashed"
          /\ last' = [op |-> "uthread_yield", arg |-> p, ret |-> <<>>,
                      caller |-> active, thread |-> NULL, outcome |-> "segv"]
          /\ Guard
          /\ UNCHANGED <<head, size, active, priority, next, prev, heap,
                         ncreated, fifo>>
       ELSE
          /\ o \in YieldOutcomes
          /\ \E pri1 \in {yield_priority(priority, active, p)} :
             \E save \in {active} :
             \E r \in {yield_select(Queue, pri1, save)} :
             \E q \in {r.q} :
             \E out \in {IF o = "segv_swap" THEN o
                         ELSE IF NoStack(r.thread) THEN "nostack" ELSE "ok"} :
                 /\ priority' = pri1
                 /\ head' = q.head
                 /\ size' = q.size
                 /\ next' = q.next
                 /\ prev' = q.prev
                 /\ active' = r.thread
                 /\ fifo' = Append(Remove(fifo, r.thread), save)
                 /\ status' = IF out = "ok" THEN "running" ELSE "crashed"
                 /\ last' = [op |-> "uthread_yield", arg |-> p,
                             ret |-> IF out = "ok" THEN <<0>> ELSE <<>>,
                             caller |-> save, thread |-> r.thread,
                             outcome |-> out]
          /\ Guard
          /\ UNCHANGED <<heap, ncreated>>

\* ---------------------------------------------------------- uthread_exit
\* What uthread_exit can do: "abort" is a fault inside free() or inside the
\* loop of cleanup_queue, possible when they are given a wild pointer.
ExitOutcomes ==
    IF size = 0
    THEN IF cleanup_undefined(Queue, active) THEN {"abort", "ok"} ELSE {"ok"}
    ELSE IF active = WILD THEN {"abort", "ok"} ELSE {"ok"}

uthread_exit(o) ==
    /\ status = "running"
    /\ o \in ExitOutcomes
    /\ IF size = 0 THEN
          /\ status' = IF o = "ok" THEN "exited" ELSE "crashed"
          /\ heap' = IF o = "ok"
                     THEN (heap \ cleanup_queue(Queue, active)) \ {<<"sem", NULL>>}
                     ELSE heap
          /\ last' = [op |-> "uthread_exit", arg |-> 0, ret |-> <<>>,
                      caller |-> active, thread |-> NULL,
                      outcome |-> IF o = "ok" THEN "exit0" ELSE o]
          /\ Guard
          /\ UNCHANGED <<head, size, active, priority, next, prev,
                         ncreated, fifo>>
       ELSE
          /\ \E r \in {get_priority_thread(Queue, priority)} :
             \E out \in {IF o = "abort" THEN o
                         ELSE IF NoStack(r.thread) THEN "nostack" ELSE "ok"} :
             \E gone \in {IF o = "abort" THEN NULL ELSE active} :
                 /\ head' = r.q.head
                 /\ size' = r.q.size
                 /\ next' = Freed(r.q.next, gone)
                 /\ prev' = Freed(r.q.prev, gone)
                 /\ priority' = Freed(priority, gone)
                 /\ fifo' = Remove(fifo, r.thread)
                 /\ heap' = IF o = "abort" THEN heap ELSE heap \ free_node(active)
                 /\ active' = IF o = "abort" THEN active ELSE r.thread
                 /\ status' = IF out = "ok" THEN "running" ELSE "crashed"
                 /\ last' = [op |-> "uthread_exit", arg |-> 0, ret |-> <<>>,
                             caller |-> active, thread |-> r.thread,
                             outcome |-> out]
          /\ Guard
          /\ UNCHANGED <<ncreated>>

\* ------------------------------------------------------------------ Next
Outcomes == {"ok", "segv", "segv_swap", "abort"}

Next ==
    \/ \E p \in Prios, fail \in AllocFail : uthread_create(p, fail)
    \/ \E p \in Prios, o \in Outcomes : uthread_yield(p, o)
    \/ \E o \in Outcomes : uthread_exit(o)

Spec == Init /\ [][Next]_vars

\* The program of the demo: every thread is created at the largest priority
\* number, and threads yield at any priority.
SpawnPrio == MaxPrio

NextDemo ==
    \/ \E fail \in AllocFail : uthread_create(SpawnPrio, fail)
    \/ \E p \in Prios, o \in Outcomes : uthread_yield(p, o)
    \/ \E o \in Outcomes : uthread_exit(o)

SpecDemo == Init /\ [][NextDemo]_vars

\* A program whose threads all hold one priority: they are created with it
\* and yield with it, and the running thread always eventually calls
\* uthread_yield or uthread_exit.
Switch ==
    \/ \E o \in Outcomes : uthread_yield(SpawnPrio, o)
    \/ \E o \in Outcomes : uthread_exit(o)

NextRR ==
    \/ \E fail \in AllocFail : uthread_create(SpawnPrio, fail)
    \/ \E o \in Outcomes : uthread_yield(SpawnPrio, o)
    \/ \E o \in Outcomes : uthread_exit(o)

SpecRR == Init /\ [][NextRR]_vars /\ WF_vars(Switch)

\* ------------------------------------------------------------ the ring
\* The k nodes met from n by following the link field f.
RECURSIVE Walk(_, _, _)
Walk(f, n, k) ==
    IF k = 0 \/ n \notin DOMAIN f THEN <<>> ELSE <<n>> \o Walk(f, f[n], k - 1)

\* The ready nodes in the order get_priority_thread scans them.
ScanOrder == IF size = 0 THEN <<>> ELSE Walk(prev, head, size)
ScanOrderNext == IF size' = 0 THEN <<>> ELSE Walk(prev', head', size')

\* The nodes linked in the ring.
Ready == SeqToSet(ScanOrder)
ReadyNext == SeqToSet(ScanOrderNext)

\* The step is a call of uthread_yield or uthread_exit that ran
\* get_priority_thread on a non-empty ring.
Selected ==
    /\ last'.op \in {"uthread_yield", "uthread_exit"}
    /\ last'.thread # NULL

\* No malloc of uthread_create has failed so far.
AllocsSucceeded ==
    /\ last.outcome \notin {"node", "context", "stack"}
    /\ \A n \in 1..ncreated : <<"stack", n>> \in heap

\* ---------------------------------------------------------------- claims
\* C1: whenever get_priority_thread runs on a non-empty ring, the node it
\* returns was in the ring and its priority is less than or equal to the
\* priority of every node that was in the ring at the call.
C1_SelectsMinimum ==
    [][Selected =>
        /\ last'.thread \in Ready
        /\ last'.thread \notin ReadyNext
        /\ \A r \in Ready : priority[last'.thread] <= priority[r]]_vars

\* A call of uthread_exit has selected a node of strictly smaller priority
\* than the two or more nodes it left in the ring.
C1_Witness ==
    /\ status = "running"
    /\ last.op = "uthread_exit"
    /\ last.thread \in Created
    /\ size >= 2
    /\ \A r \in Ready : priority[r] > priority[last.thread]

\* C2: of the ready nodes that have the smallest priority at a selection,
\* the one enqueued first (by uthread_create or by the add of uthread_yield)
\* is the one selected.
C2_OldestOfEqualPriority ==
    [][Selected =>
        /\ SeqToSet(fifo) = Ready
        /\ \A r \in Ready :
              (r # last'.thread /\ priority[r] = priority[last'.thread])
                  => IndexOf(fifo, last'.thread) < IndexOf(fifo, r)]_vars

\* A selection among equal priorities, after the first head has left the
\* ring: the node selected is not the first one created and a node of the
\* same priority stays ready.
C2_Witness ==
    /\ status = "running"
    /\ last.op = "uthread_exit"
    /\ last.thread \in Created \ {1}
    /\ size >= 2
    /\ \E r \in Ready : priority[r] = priority[last.thread]

\* C3: uthread_yield on an empty ring returns -1, transfers control to
\* nobody and changes nothing: size stays 0, active is the same and no
\* priority is written.
C3_YieldOnEmptyRing ==
    [][(last'.op = "uthread_yield" /\ size = 0) =>
        /\ last'.ret = <<-1>>
        /\ last'.thread = NULL
        /\ size' = 0
        /\ UNCHANGED <<head, active, priority, next, prev, lock, heap,
                       status, fifo>>]_vars

\* uthread_yield has returned -1 to a thread that runs alone.
C3_Witness ==
    /\ last.op = "uthread_yield"
    /\ last.ret = <<-1>>
    /\ size = 0
    /\ status = "running"
    /\ active \in Created
    /\ priority[active] # last.arg

\* C4: a uthread_yield(p) on a non-empty ring leaves, at the context
\* transfer, the caller linked in the ring with priority p, the selected
\* node active and out of the ring, and size as it was before the call
\* (stated for the runs in which no allocation failed).
C4_YieldReinsertsCaller ==
    [][(last'.op = "uthread_yield" /\ size > 0 /\ AllocsSucceeded) =>
        /\ last'.caller \in ReadyNext
        /\ priority'[last'.caller] = last'.arg
        /\ active' = last'.thread
        /\ last'.thread \notin ReadyNext
        /\ size' = size]_vars

\* C5: uthread_exit on a non-empty ring makes the oldest ready node of
\* smallest priority the active one, with size one less, and the caller is
\* not in the ring (stated for the runs in which no allocation failed).
C5_ExitHandsOff ==
    [][(last'.op = "uthread_exit" /\ size > 0 /\ AllocsSucceeded) =>
        /\ active' = last'.thread
        /\ last'.thread \in Ready
        /\ \A r \in Ready : priority[last'.thread] <= priority[r]
        /\ size' = size - 1
        /\ last'.caller \notin ReadyNext]_vars

\* C6: the process ends only by the exit(0) of a uthread_exit that finds
\* the ring empty, never by a fault (stated for the runs in which no
\* allocation failed and the caller's slot does not hold a wild pointer).
C6_EndsOnlyByExit ==
    /\ (AllocsSucceeded /\ last.caller # WILD) => status # "crashed"
    /\ status = "exited" => (last.op = "uthread_exit" /\ size = 0)

\* C7: a uthread_create that returns 0 adds one new node, with the given
\* priority, to the ring and changes nothing else: size grows by one,
\* active, the status and the lock are the same, and the nodes already
\* ready keep their priorities and their order.  The active node changes
\* only in a uthread_yield or a uthread_exit.
C7_CreateOnlyEnqueues ==
    [][/\ (last'.op = "uthread_create" /\ last'.ret = <<0>>) =>
            /\ size' = size + 1
            /\ Cardinality(ReadyNext) = Cardinality(Ready) + 1
            /\ \E n \in Created \ Ready :
                  /\ ReadyNext = Ready \cup {n}
                  /\ n \notin DOMAIN priority
                  /\ priority'[n] = last'.arg
                  /\ Remove(ScanOrderNext, n) = ScanOrder
            /\ \A r \in Ready : priority'[r] = priority[r]
            /\ UNCHANGED <<active, status, lock>>
       /\ active' # active => last'.op \in {"uthread_yield", "uthread_exit"}
      ]_vars

\* A uthread_create has returned 0 with two nodes already ready and a node
\* active; the new node is ready and is not the active one.
C7_Witness ==
    /\ last.op = "uthread_create"
    /\ last.ret = <<0>>
    /\ size = 3
    /\ active \in Created
    /\ ncreated \in Ready
    /\ priority[ncreated] = last.arg
    /\ status = "running"

\* C8: uthread_create returns -1 whenever one of its three allocations
\* fails, and then no node has been added to the ring.
C8_CreateFailsOnAnyAllocFailure ==
    (last.op = "uthread_create" /\ last.outcome \in {"context", "stack"}) =>
        /\ last.ret = <<-1>>
        /\ ncreated \notin Ready

\* C9: every uthread_yield or uthread_exit that reads, writes or frees the
\* active node finds in thread_queue->active a node the library set up.
C9_ActiveIsSetUp ==
    (last.op \in {"uthread_yield", "uthread_exit"} /\ last.outcome # "empty")
        => last.caller \in Created

\* C10: while the process runs, exactly one node is active, it is not in
\* the ring, and no node is in the ring twice.
C10_OneActiveOutsideRing ==
    status = "running" =>
        /\ active \in Created
        /\ active \notin Ready
        /\ Cardinality(Ready) = size

\* ------------------------------------------------- what holds all the same
\* A uthread_yield on a non-empty ring whose caller has a node of its own
\* does reinsert the caller with the new priority and keeps size.
YieldOfCreatedReinserts ==
    [][(last'.op = "uthread_yield" /\ size > 0 /\ active \in Created) =>
        /\ last'.caller \in ReadyNext
        /\ priority'[last'.caller] = last'.arg
        /\ active' = last'.thread
        /\ last'.thread \notin ReadyNext
        /\ size' = size]_vars

\* A uthread_exit on a non-empty ring whose active slot is null or a node
\* of the library hands off to the selected node.
ExitOfCreatedHandsOff ==
    [][(last'.op = "uthread_exit" /\ size > 0 /\ active # WILD) =>
        /\ active' = last'.thread
        /\ size' = size - 1
        /\ last'.caller \notin ReadyNext
        /\ active \in Created => <<"node", active>> \notin heap']_vars

\* The active slot never points into the ring, and size is the number of
\* distinct nodes linked in it.
ActiveOutsideRing ==
    status = "running" => (active \notin Ready /\ Cardinality(Ready) = size)

\* C11: a non-empty ring is circular and consistent in both directions
\* (r.next.prev = r and r.prev.next = r for every ready node r), following
\* next from head comes back to head after exactly size steps, and those
\* steps visit size distinct nodes.
C11_RingIsCircular ==
    size > 0 =>
        LET fwd == Walk(next, head, size) IN
        /\ Len(fwd) = size
        /\ Cardinality(SeqToSet(fwd)) = size
        /\ next[fwd[size]] = head
        /\ \A i \in 1..(size - 1) : fwd[i] # head \/ i = 1
        /\ \A r \in SeqToSet(fwd) : prev[next[r]] = r /\ next[prev[r]] = r
        /\ SeqToSet(fwd) = Ready

\* A ring of three nodes whose first head has been removed and into which
\* a yielding thread has been linked again.
C11_Witness ==
    /\ status = "running"
    /\ size = 3
    /\ head # 1
    /\ last.op = "uthread_yield"
    /\ last.caller \in Ready

\* The statements that read or write the scheduler's state: size, head and
\* the links (add, get_priority_thread, cleanup_queue), the active slot
\* and a node's priority.
GuardedSteps ==
    {"size", "priority", "get_priority_thread", "active", "add",
     "free_active", "cleanup_queue"}

\* The ways a call ends or gives the processor away.
LeavingSteps == {"return", "swapcontext", "setcontext", "exit"}

\* C12: every read or write of the scheduler's state, the teardown of
\* uthread_exit included, is made while the semaphore is held (stated for
\* the calls that do not fault).
C12_AccessesUnderGuard ==
    [][status' # "crashed" =>
        \A i \in 1..Len(Steps(last')) :
            Steps(last')[i] \in GuardedSteps
                => LockBefore(Steps(last'), i, lock) = 0]_vars

\* Apart from the teardown, every use of the scheduler's state is made
\* with the semaphore held.
AccessesButTeardownUnderGuard ==
    [][\A i \in 1..Len(Steps(last')) :
          Steps(last')[i] \in GuardedSteps \ {"cleanup_queue"}
              => LockBefore(Steps(last'), i, lock) = 0]_vars

\* C18: the semaphore is free at every context transfer and whenever a
\* thread runs its own code: a call takes it at most once and has released
\* it when it returns, transfers control or exits, and its value is always
\* 0 or 1.
C18_GuardFreeOutsideCalls ==
    /\ status = "running" => lock = 1
    /\ LET st == Steps(last) IN
       /\ Cardinality({i \in 1..Len(st) : st[i] = "sem_wait"}) <= 1
       /\ \A i \in 1..(Len(st) + 1) : LockBefore(st, i, 1) \in {0, 1}
       /\ \A i \in 1..Len(st) :
             st[i] \in LeavingSteps => LockBefore(st, i, 1) = 1

\* A uthread_yield has switched to another thread, which now runs with the
\* semaphore free.
C18_Witness ==
    /\ last.op = "uthread_yield"
    /\ last.outcome = "ok"
    /\ last.thread = active
    /\ status = "running"
    /\ lock = 1
    /\ Steps(last)[Len(Steps(last))] = "swapcontext"

\* C13: a uthread_exit that hands off releases both the node and the
\* context of the exiting thread, and leaves the node and the context of
\* the selected thread and of every ready thread allocated (stated for an
\* exiting thread that has a node).
C13_ExitReleasesNodeAndContext ==
    (/\ last.op = "uthread_exit"
     /\ last.thread # NULL
     /\ last.outcome # "abort"
     /\ last.caller \in Created) =>
        /\ <<"node", last.caller>> \notin heap
        /\ <<"context", last.caller>> \notin heap
        /\ \A n \in (Ready \cup {active}) \cap Created :
              <<"node", n>> \in heap /\ <<"context", n>> \in heap

\* What uthread_exit does release: the node of the exiting thread, and
\* nothing of the threads that stay.
ExitReleasesNodeOnly ==
    (/\ last.op = "uthread_exit"
     /\ last.thread # NULL
     /\ last.outcome # "abort"
     /\ last.caller \in Created) =>
        /\ <<"node", last.caller>> \notin heap
        /\ <<"context", last.caller>> \in heap
        /\ \A n \in (Ready \cup {active}) \cap Created :
              <<"node", n>> \in heap /\ <<"context", n>> \in heap

\* C14: when the process has exited, nothing the library allocated is
\* still allocated: no node, context or stack, not the queue, and the
\* semaphore is destroyed (stated for the runs in which no allocation
\* failed).
C14_TeardownReleasesAll ==
    (status = "exited" /\ AllocsSucceeded) => heap = {}

\* What the teardown does release: the queue, the semaphore and every node.
TeardownReleasesNodes ==
    (status = "exited" /\ AllocsSucceeded) =>
        \A a \in heap : a[1] \in {"context", "stack"}

\* C15 as claimed: in a uthread_yield(p) on a non-empty ring the caller
\* takes part in the selection with its new priority, so it is its own
\* successor when p is below the priority of every ready node (stated for
\* a caller and ready nodes that uthread_create made).
C15_CallerCanSucceedItself ==
    [][(/\ last'.op = "uthread_yield"
        /\ size > 0
        /\ active \in Created
        /\ Ready \subseteq Created
        /\ \A r \in Ready : last'.arg < priority[r])
            => last'.thread = last'.caller]_vars

\* C15 as amended: the selection of a uthread_yield is made among the
\* nodes that were ready before the call; the caller is linked in again
\* only afterwards, with its new priority, and is never its own successor.
C15_CallerNeverSucceedsItself ==
    (last.op = "uthread_yield" /\ last.thread # NULL) =>
        /\ last.thread # last.caller
        /\ active = last.thread
        /\ active \notin Ready
        /\ last.caller \in Ready
        /\ priority[last.caller] = last.arg
        /\ fifo[Len(fifo)] = last.caller

\* A uthread_yield whose caller took a priority strictly below that of the
\* thread it yielded to, and of every ready thread: another thread runs.
C15_Witness ==
    /\ last.op = "uthread_yield"
    /\ last.outcome = "ok"
    /\ status = "running"
    /\ last.caller \in Created
    /\ priority[last.caller] < priority[active]
    /\ \A r \in Ready \ {last.caller} : priority[last.caller] < priority[r]
    /\ size >= 2

\* C16: in every state the scan of get_priority_thread (head, then prev
\* until head comes again) meets each ready node exactly once, in the order
\* the nodes were enqueued: head is the oldest node still in the ring and
\* the node enqueued last comes last.  The enqueue order only grows at its
\* end and loses the node selected, so an add to a non-empty ring leaves
\* head alone and the removal of head promotes the next-oldest node.
C16_ScanIsEnqueueOrder ==
    /\ ScanOrder = fifo
    /\ Len(ScanOrder) = size
    /\ Cardinality(Ready) = size
    /\ size > 0 => head = fifo[1] /\ prev[fifo[size]] = head

\* The first head has been selected and has come back by uthread_yield:
\* another node is head and the caller of the yield is scanned last.
C16_Witness ==
    /\ status = "running"
    /\ last.op = "uthread_yield"
    /\ last.outcome = "ok"
    /\ size >= 2
    /\ head \in Created \ {1}
    /\ fifo[size] = 1
    /\ last.caller = 1

\* C17: a uthread_yield(p) that switches leaves its caller in the ring
\* with priority p; the priority of a node does not change while the node
\* stays in the ring; and at every selection a ready node whose priority
\* is strictly smaller than that of every other ready node is the one
\* selected.  So a thread that yielded with p competes at p, whatever the
\* priority it was created with, until it is selected.
C17_YieldPriorityCompetes ==
    [][/\ (last'.op = "uthread_yield" /\ last'.thread # NULL) =>
              /\ last'.caller \in ReadyNext
              /\ priority'[last'.caller] = last'.arg
       /\ \A r \in Ready \cap ReadyNext : priority'[r] = priority[r]
       /\ Selected =>
              \A r \in Ready :
                  (\A s \in Ready \ {r} : priority[r] < priority[s])
                      => last'.thread = r]_vars

\* In the program of the demo, where every thread is created at SpawnPrio:
\* another thread's uthread_yield or uthread_exit has selected a thread
\* that had yielded with a smaller priority number, ahead of a thread
\* created before it that waits at SpawnPrio.
C17_Witness ==
    /\ status = "running"
    /\ last.op \in {"uthread_yield", "uthread_exit"}
    /\ last.thread \in Created
    /\ last.caller # last.thread
    /\ active = last.thread
    /\ priority[last.thread] < SpawnPrio
    /\ \E r \in Ready \cap Created :
           r < last.thread /\ r # last.caller /\ priority[r] = SpawnPrio

\* C19: whenever uthread_exit has reached the teardown (it found size 0),
\* head is the null pointer, so the loop of cleanup_queue meets no node.
C19_TeardownFromNullHead ==
    (last.op = "uthread_exit" /\ last.thread = NULL) => head = NULL

\* What the code does guarantee: once uthread_create has enqueued a node
\* (its context is never released), a teardown finds head null, because
\* get_priority_thread stores NULL when it removes the last node.
TeardownAfterCreateFromNull ==
    (/\ last.op = "uthread_exit"
     /\ last.thread = NULL
     /\ \E n \in Created : <<"context", n>> \in heap) => head = NULL

\* C20: when every thread holds the same priority and the running thread
\* always eventually calls uthread_yield or uthread_exit, every ready
\* thread is eventually the running one (stated for runs in which no
\* malloc of uthread_create fails).
C20_NoStarvation ==
    \A n \in Created :
        (n \in Ready /\ AllocsSucceeded) ~> (active = n \/ ~AllocsSucceeded)

\* What the code does guarantee in that configuration: a ready thread is
\* eventually the running one unless the process has crashed.
NoStarvationUnlessCrashed ==
    \A n \in Created : (n \in Ready) ~> (active = n \/ status = "crashed")

\* Every crash happens in a call made by the initial thread, whose active
\* slot system_init left unset, or at the transfer to a thread whose stack
\* was not allocated.
CrashOnlyByInitialThreadOrNoStack ==
    status = "crashed" => (last.caller \in Uninit \/ last.outcome = "nostack")

\* Round-robin: with one priority, the thread selected is always the one
\* that has been ready longest.
RoundRobinOrder ==
    [][(Selected /\ \A r \in Ready : priority[r] = SpawnPrio)
          => last'.thread = fifo[1]]_vars

=============================================================================
